---- MODULE Spec2Model ----
(***************************************************************************)
(* Model of the Smart CPA Offer worker (src/worker.js): the fetch handler  *)
(* of a Cloudflare Worker that forwards the visitor's IP and User-Agent to *)
(* an offer feed, normalises the first offer of the reply and answers with *)
(* CORS-enabled JSON.                                                      *)
(*                                                                         *)
(* JavaScript values are records [t, v]: t is the type tag and v the       *)
(* content as a sequence of tokens (a string's characters, a number's or   *)
(* boolean's literal); containers and functions carry no content.          *)
(***************************************************************************)
EXTENDS Integers, Sequences, FiniteSets, TLC

\* ------------------------------------------------------------------ bounds
\* concurrently running invocations of the handler
NumInv == 2
\* longest header value (in tokens) of an inbound request
MaxHdrLen == 1
\* longest array the upstream answers with
MaxArrLen == 2

Invocations == 1..NumInv

\* ------------------------------------------------------------- JS values
Undefined == [t |-> "undefined", v |-> <<>>]
Null == [t |-> "null", v |-> <<>>]
Str(s) == [t |-> "str", v |-> s]
Num(n) == [t |-> "num", v |-> <<n>>]
Bool(b) == [t |-> "bool", v |-> <<b>>]
EmptyObj == [t |-> "obj", v |-> <<>>]
EmptyArr == [t |-> "arr", v |-> <<>>]
Function == [t |-> "function", v |-> <<>>]

\* ToBoolean, as the || operator applies it to its left operand
Truthy(x) ==
  CASE x.t \in {"undefined", "null"} -> FALSE
    [] x.t = "bool" -> x.v = <<"true">>
    [] x.t = "num" -> x.v # <<"0">>
    [] x.t = "str" -> x.v # <<>>
    [] OTHER -> TRUE

\* a || b
Or(a, b) == IF Truthy(a) THEN a ELSE b

\* ---------------------------------------------------------------- request
Methods == {"OPTIONS", "GET", "POST"}
HdrChars == {"1", " ", "&"}

RECURSIVE SeqsUpTo(_, _)
SeqsUpTo(S, n) ==
  IF n = 0 THEN {<<>>}
  ELSE LET shorter == SeqsUpTo(S, n - 1)
       IN shorter \cup {Append(s, c) : s \in {x \in shorter : Len(x) = n - 1}, c \in S}

\* what request.headers.get(name) can return: null for a missing header,
\* else the header's value, which may be the empty string
HeaderValues == {Null} \cup {Str(s) : s \in SeqsUpTo(HdrChars, MaxHdrLen)}

Requests ==
  [method : Methods, ip : HeaderValues, ua : HeaderValues]

HeadersGet(req, name) ==
  IF name = "CF-Connecting-IP" THEN req.ip ELSE req.ua

corsHeaders ==
  { <<"Access-Control-Allow-Origin", "*">>,
    <<"Access-Control-Allow-Methods", "GET, HEAD, POST, OPTIONS">>,
    <<"Access-Control-Allow-Headers", "Content-Type">> }

JsonHeaders == corsHeaders \cup { <<"Content-Type", "application/json">> }

\* ------------------------------------------------------- upstream query
\* URLSearchParams.set on a list of <<name, value>> pairs: the first pair of
\* that name gets the value and later ones go; a new name is appended
SearchParamsSet(params, name, value) ==
  IF \E k \in 1..Len(params) : params[k][1] = name
  THEN LET first == CHOOSE k \in 1..Len(params) :
                      /\ params[k][1] = name
                      /\ \A j \in 1..(k - 1) : params[j][1] # name
           keep == [k \in 1..Len(params) |->
                      IF k = first THEN <<name, value>> ELSE params[k]]
       IN SelectSeq(keep, LAMBDA p : p[1] # name \/ p = <<name, value>>)
  ELSE Append(params, <<name, value>>)

\* application/x-www-form-urlencoded byte serialisation of one token
EncodeChar(c) ==
  CASE c = " " -> <<"+">>
    [] c = "&" -> <<"%", "2", "6">>
    [] c = "=" -> <<"%", "3", "D">>
    [] c = "+" -> <<"%", "2", "B">>
    [] c = "%" -> <<"%", "2", "5">>
    [] OTHER -> <<c>>

\* (mutant) the query is put together without escaping
EncodeRaw(s) == s

RECURSIVE Encode(_)
Encode(s) ==
  IF s = <<>> THEN <<>> ELSE EncodeChar(Head(s)) \o Encode(Tail(s))

RECURSIVE SerializeParams(_)
SerializeParams(params) ==
  IF params = <<>> THEN <<>>
  ELSE LET p == Head(params)
           one == Encode(p[1]) \o <<"=">> \o Encode(p[2])
       IN IF Len(params) = 1 THEN one
          ELSE one \o <<"&">> \o SerializeParams(Tail(params))

FeedBase == "https://d1y3y09sav47f5.cloudfront.net/public/offers/feed.php"
DefaultIp == <<"127.0.0.1">>
DefaultUa == <<"Mozilla/5.0", " ", "(Compatible;", " ", "Smart-CPA-Worker/1.0)">>

visitorIpOf(req) == Or(HeadersGet(req, "CF-Connecting-IP"), Str(DefaultIp))
visitorUaOf(req) == Or(HeadersGet(req, "User-Agent"), Str(DefaultUa))

feedParams(req) ==
  LET p1 == SearchParamsSet(<<>>, <<"user_id">>, <<"611649">>)
      p2 == SearchParamsSet(p1, <<"api_key">>, <<"5b940f32e94b1f757dd335bb88ab840f">>)
      p3 == SearchParamsSet(p2, <<"s1">>, <<"worker_api">>)
      p4 == SearchParamsSet(p3, <<"ip">>, visitorIpOf(req).v)
  IN SearchParamsSet(p4, <<"user_agent">>, visitorUaOf(req).v)

\* feedUrl.toString(): the base, "?" and the serialised query
feedUrlString(req) == <<FeedBase, "?">> \o SerializeParams(feedParams(req))

\* the outbound call fetch(feedUrl.toString(), {headers, cf})
OutboundCall(req) ==
  [ url |-> feedUrlString(req),
    userAgent |-> "Cloudflare-Worker-CPA-Middleware/1.0",
    cacheTtl |-> "0" ]

\* ------------------------------------------------------ upstream payload
Keys ==
  {"anchor", "name", "url", "click_url", "conversion", "payout",
   "requirements", "description"}

\* JSON values an offer's field can hold; Undefined stands for a missing key
FieldVals ==
  { Undefined, Null, Str(<<>>), Str(<<"A">>), Str(<<"B">>), Num("0"),
    Num("1.5"), Bool("false"), Bool("true"), EmptyObj, EmptyArr }

NoFields == [k \in Keys |-> Undefined]

\* an element of the upstream array: its JSON type and, for an object, its fields
Elem(t, f) == [t |-> t, f |-> f]

PairFields(pk, fk, p, q) ==
  [k \in Keys |-> IF k = pk THEN p ELSE IF k = fk THEN q ELSE Undefined]

KeyPairs ==
  { <<"anchor", "name">>, <<"url", "click_url">>, <<"conversion", "payout">>,
    <<"requirements", "description">> }

ScenarioOffer ==
  Elem("obj", [k \in Keys |->
     CASE k = "anchor" -> Str(<<"Win a Prize">>)
       [] k = "url" -> Str(<<"http://x">>)
       [] k = "conversion" -> Str(<<"1.50">>)
       [] OTHER -> Undefined])

FullOffer ==
  Elem("obj", [k \in Keys |-> Str(<<k>>)])

OfferObjects ==
  { Elem("obj", PairFields(kp[1], kp[2], p, q)) :
      kp \in KeyPairs, p \in FieldVals, q \in FieldVals }
  \cup {ScenarioOffer, FullOffer}

ScalarElems ==
  { Elem(t, NoFields) : t \in {"null", "bool", "num", "str", "arr"} }

FirstElems == OfferObjects \cup ScalarElems
FewElems == ScalarElems \cup {ScenarioOffer, Elem("obj", NoFields)}

\* the value response.json() resolves with: its JSON type and, for an array,
\* its elements
Data(t, a) == [t |-> t, a |-> a]

RECURSIVE Tails(_)
Tails(n) ==
  IF n = 0 THEN {<<>>}
  ELSE {<<e>> \o s : e \in {Elem("null", NoFields), FullOffer}, s \in Tails(n - 1)}

ArrayData ==
  {Data("arr", <<>>)}
  \cup {Data("arr", <<e>>) : e \in FirstElems}
  \cup {Data("arr", <<e>> \o s) : e \in FewElems,
          s \in UNION {Tails(n) : n \in 1..(MaxArrLen - 1)}}

NonArrayData ==
  {Data(t, <<>>) : t \in {"null", "bool", "num", "str", "obj"}}

\* the body of an upstream reply: JSON text (with the value it parses to),
\* text that is no JSON, or a stream that fails while it is read
Body(kind, data) == [kind |-> kind, data |-> data]
NoData == Data("none", <<>>)
JsonBodies == {Body("json", d) : d \in ArrayData \cup NonArrayData}
BadBodies == {Body("garbage", NoData), Body("aborted", NoData)}
FewBodies ==
  BadBodies \cup {Body("json", Data("arr", <<>>)), Body("json", Data("arr", <<ScenarioOffer>>))}

\* an upstream Response
Reply(status, body) == [kind |-> "response", status |-> status, body |-> body]
NoReply == [kind |-> "none", status |-> 0, body |-> Body("none", NoData)]
Rejected == [kind |-> "rejected", status |-> 0, body |-> Body("none", NoData)]

Replies ==
  {Reply(200, b) : b \in JsonBodies \cup BadBodies}
  \cup {Reply(st, b) : st \in {204, 299, 300, 304, 400, 404, 500, 503}, b \in FewBodies}

\* (mutant) only a status of 400 and above counts as a failure
OkBelow400(response) == response.status < 400

\* Response.ok
Ok(response) == response.status >= 200 /\ response.status <= 299

\* ------------------------------------------------------------- responses
Omitted == [t |-> "omitted", v |-> <<>>]
NoOffer ==
  [present |-> FALSE, name |-> Omitted, link |-> Omitted, payout |-> Omitted,
   instructions |-> Omitted]
NoJson == [success |-> Omitted, message |-> Omitted, error |-> Omitted, offer |-> NoOffer]

\* JSON.stringify of a member's value: a member holding undefined or a
\* function is left out of the text
StringifyMember(x) == IF x.t \in {"undefined", "function"} THEN Omitted ELSE x

StringifyOffer(o) ==
  [present |-> TRUE, name |-> StringifyMember(o.name), link |-> StringifyMember(o.link),
   payout |-> StringifyMember(o.payout),
   instructions |-> StringifyMember(o.instructions)]

\* new Response(body, {headers, status}); status 200 when none is given
Response(status, headers, kind, json) ==
  [status |-> status, headers |-> headers, body |-> [kind |-> kind, json |-> json]]

\* (mutant) the preflight answer goes out without the CORS headers
PreflightNoCors == Response(200, {}, "empty", NoJson)

PreflightResponse == Response(200, corsHeaders, "empty", NoJson)

NoOffersResponse ==
  Response(200, JsonHeaders, "json",
    [NoJson EXCEPT !.success = Bool("false"),
                   !.message = Str(<<"No offers available for this user.">>)])

ErrorResponse(message) ==
  Response(500, JsonHeaders, "json",
    [NoJson EXCEPT !.success = Bool("false"), !.error = StringifyMember(message)])

\* how a stretch of the handler ends: it returns a response or throws
Return(resp) == [kind |-> "return", resp |-> resp, message |-> Undefined]
Throw(message) == [kind |-> "throw", resp |-> PreflightResponse, message |-> message]
Running == [kind |-> "running", resp |-> PreflightResponse, message |-> Undefined]

\* (mutant) no catch: what is thrown leaves the handler
TryCatchRethrow(outcome) == outcome

\* try { ... } catch (error) { return 500 with error.message }
TryCatch(outcome) ==
  IF outcome.kind = "throw" THEN Return(ErrorResponse(outcome.message)) ELSE outcome

\* ------------------------------------------------------ field selection
StringProto == {"anchor", "link"}

\* bestOffer.key, for a bestOffer that is neither null nor undefined
GetProp(elem, key) ==
  CASE elem.t = "obj" -> elem.f[key]
    [] elem.t = "str" /\ key \in StringProto -> Function
    [] OTHER -> Undefined

\* (mutant) the fallback name is tried before the primary one
ResolveFallbackFirst(elem, primary, fallback, default) ==
  Or(Or(GetProp(elem, fallback), GetProp(elem, primary)), Str(<<default>>))

Resolve(elem, primary, fallback, default) ==
  Or(Or(GetProp(elem, primary), GetProp(elem, fallback)), Str(<<default>>))

resolveName(elem) == Resolve(elem, "anchor", "name", "Exclusive Offer")
resolveLink(elem) == Resolve(elem, "url", "click_url", "#")
resolvePayout(elem) == Resolve(elem, "conversion", "payout", "0.00")
resolveInstructions(elem) ==
  Resolve(elem, "requirements", "description", "Complete the steps to proceed.")

cleanOffer(bestOffer) ==
  [name |-> resolveName(bestOffer), link |-> resolveLink(bestOffer),
   payout |-> resolvePayout(bestOffer),
   instructions |-> resolveInstructions(bestOffer)]

SuccessResponse(bestOffer) ==
  Response(200, JsonHeaders, "json",
    [NoJson EXCEPT !.success = Bool("true"),
                   !.offer = StringifyOffer(cleanOffer(bestOffer))])

\* Array.isArray(data)
IsArray(data) == data.t = "arr"

\* (mutant) the emptiness test is forgotten
NoOffersNotArrayOnly(data) == ~IsArray(data)

\* !Array.isArray(data) || data.length === 0
NoOffers(data) == ~IsArray(data) \/ Len(data.a) = 0

\* data[0]: undefined when the array has no element 0
Index0(data) == IF Len(data.a) >= 1 THEN data.a[1] ELSE Elem("undefined", NoFields)

\* the handler from the parsed payload on
AfterParse(data) ==
  IF NoOffers(data) THEN Return(NoOffersResponse)
  ELSE LET bestOffer == Index0(data)
       IN IF bestOffer.t \in {"null", "undefined"}
          THEN Throw(Str(<<"Cannot read properties of null (reading 'anchor')">>))
          ELSE Return(SuccessResponse(bestOffer))

\* the handler once fetch has resolved, up to the call of response.json()
AfterFetch(response) ==
  IF ~Ok(response)
  THEN Throw(Str(<<"Upstream Network Error: ", ToString(response.status)>>))
  ELSE Running

\* the handler once response.json() has settled
AfterJson(response) ==
  CASE response.body.kind = "json" -> AfterParse(response.body.data)
    [] response.body.kind = "garbage" -> Throw(Str(<<"Unexpected token in JSON">>))
    [] OTHER -> Throw(Str(<<"Network connection lost.">>))

\* ------------------------------------------------------------------ state
VARIABLES
  pc,        \* where each invocation stands: idle, await_fetch, await_json, done
  request,   \* the inbound request of each invocation
  sent,      \* the outbound calls each invocation has issued, in order
  reply,     \* what the upstream answered to each invocation's call
  response,  \* the binding `response` of each activation of fetch()
  bodyRead,  \* whether the invocation has called response.json()
  result     \* how the invocation ended: the response returned, or a throw

vars == <<pc, request, sent, reply, response, bodyRead, result>>

NoRequest == [method |-> "none", ip |-> Null, ua |-> Null]

\* the activation record holding invocation i's const bindings: every call
\* of fetch() gets its own
FrameShared(i) == 1
Frame(i) == i

Init ==
  /\ pc = [i \in Invocations |-> "idle"]
  /\ request = [i \in Invocations |-> NoRequest]
  /\ sent = [i \in Invocations |-> <<>>]
  /\ reply = [i \in Invocations |-> NoReply]
  /\ response = [i \in Invocations |-> NoReply]
  /\ bodyRead = [i \in Invocations |-> FALSE]
  /\ result = [i \in Invocations |-> Running]

\* (mutant) the call is issued twice
IssueFetchTwice(calls, req) == Append(Append(calls, OutboundCall(req)), OutboundCall(req))

\* await fetch(feedUrl.toString(), ...): one call goes out
IssueFetch(calls, req) == Append(calls, OutboundCall(req))

\* the runtime calls fetch(request): the handler runs up to its first await
Invoke(i, req) ==
  /\ pc[i] = "idle"
  /\ request' = [request EXCEPT ![i] = req]
  /\ IF req.method = "OPTIONS"
     THEN /\ result' = [result EXCEPT ![i] = Return(PreflightResponse)]
          /\ pc' = [pc EXCEPT ![i] = "done"]
          /\ sent' = sent
     ELSE /\ sent' = [sent EXCEPT ![i] = IssueFetch(@, req)]
          /\ pc' = [pc EXCEPT ![i] = "await_fetch"]
          /\ result' = result
  /\ UNCHANGED <<reply, response, bodyRead>>

\* the awaited fetch resolves with the upstream's response
FetchResolve(i, rep) ==
  /\ pc[i] = "await_fetch"
  /\ reply' = [reply EXCEPT ![i] = rep]
  /\ response' = [response EXCEPT ![Frame(i)] = rep]
  /\ LET outcome == TryCatch(AfterFetch(rep))
     IN IF outcome.kind = "running"
        THEN /\ bodyRead' = [bodyRead EXCEPT ![i] = TRUE]
             /\ pc' = [pc EXCEPT ![i] = "await_json"]
             /\ result' = result
        ELSE /\ result' = [result EXCEPT ![i] = outcome]
             /\ pc' = [pc EXCEPT ![i] = "done"]
             /\ bodyRead' = bodyRead
  /\ UNCHANGED <<request, sent>>

\* the awaited fetch rejects (DNS, connection, TLS)
FetchReject(i) ==
  /\ pc[i] = "await_fetch"
  /\ reply' = [reply EXCEPT ![i] = Rejected]
  /\ result' = [result EXCEPT ![i] = TryCatch(Throw(Str(<<"Network connection lost.">>)))]
  /\ pc' = [pc EXCEPT ![i] = "done"]
  /\ UNCHANGED <<request, sent, response, bodyRead>>

\* the awaited response.json() settles and the handler runs to its end
JsonSettle(i) ==
  /\ pc[i] = "await_json"
  /\ result' = [result EXCEPT ![i] = TryCatch(AfterJson(response[Frame(i)]))]
  /\ pc' = [pc EXCEPT ![i] = "done"]
  /\ UNCHANGED <<request, sent, reply, response, bodyRead>>

\* one invocation, every request and every upstream reply
Next ==
  \/ \E req \in Requests : Invoke(1, req)
  \/ \E rep \in Replies : FetchResolve(1, rep)
  \/ FetchReject(1)
  \/ JsonSettle(1)

Spec == Init /\ [][Next]_vars

\* concurrent invocations, over a few requests and replies
ConcRequests ==
  { [method |-> "OPTIONS", ip |-> Null, ua |-> Null],
    [method |-> "GET", ip |-> Null, ua |-> Str(<<"&">>)],
    [method |-> "GET", ip |-> Str(<<"1">>), ua |-> Null],
    [method |-> "POST", ip |-> Str(<<" ">>), ua |-> Str(<<"1">>)] }

ConcReplies ==
  { Reply(200, Body("json", Data("arr", <<ScenarioOffer>>))),
    Reply(200, Body("json", Data("arr", <<FullOffer>>))),
    Reply(200, Body("json", Data("arr", <<>>))),
    Reply(200, Body("garbage", NoData)),
    Reply(404, Body("garbage", NoData)) }

NextConc ==
  \E i \in Invocations :
    \/ \E req \in ConcRequests : Invoke(i, req)
    \/ \E rep \in ConcReplies : FetchResolve(i, rep)
    \/ FetchReject(i)
    \/ JsonSettle(i)

SpecConc == Init /\ [][NextConc]_vars

TypeOK ==
  /\ pc \in [Invocations -> {"idle", "await_fetch", "await_json", "done"}]
  /\ bodyRead \in [Invocations -> BOOLEAN]
  /\ \A i \in Invocations : result[i].kind \in {"running", "return", "throw"}

\* ---------------------------------------------------------- properties
Done(i) == pc[i] = "done"
NonOptions(i) == request[i].method \notin {"none", "OPTIONS"}
Returned(i) == Done(i) /\ result[i].kind = "return"
Json(i) == result[i].resp.body.json

\* the upstream answered invocation i with a success status and JSON text
JsonReply(i) ==
  /\ reply[i].kind = "response"
  /\ reply[i].status >= 200 /\ reply[i].status <= 299
  /\ reply[i].body.kind = "json"

HasCors(resp) ==
  /\ <<"Access-Control-Allow-Origin", "*">> \in resp.headers
  /\ <<"Access-Control-Allow-Methods", "GET, HEAD, POST, OPTIONS">> \in resp.headers
  /\ <<"Access-Control-Allow-Headers", "Content-Type">> \in resp.headers

OutFields == {"name", "link", "payout", "instructions"}

Mapping ==
  [ name |-> <<"anchor", "name", "Exclusive Offer">>,
    link |-> <<"url", "click_url", "#">>,
    payout |-> <<"conversion", "payout", "0.00">>,
    instructions |-> <<"requirements", "description", "Complete the steps to proceed.">> ]

\* the first element of the array invocation i was answered with
First(i) == reply[i].body.data.a[1]

NonEmptyArrayReply(i) ==
  /\ JsonReply(i)
  /\ reply[i].body.data.t = "arr"
  /\ Len(reply[i].body.data.a) >= 1

IsSuccess(i) ==
  /\ Returned(i)
  /\ result[i].resp.status = 200
  /\ result[i].resp.body.kind = "json"
  /\ Json(i).success = Bool("true")
  /\ Json(i).offer.present

\* C1: a non-OPTIONS request answered upstream with a success status and a
\* non-empty JSON array, whatever its elements, gets {success:true, offer} at
\* 200 with all four offer fields present and non-null, the literal default
\* standing in for every field the first element omits.
C1_SuccessForAnyNonEmptyArray ==
  \A i \in Invocations :
    (Done(i) /\ NonOptions(i) /\ NonEmptyArrayReply(i)) =>
      /\ IsSuccess(i)
      /\ Json(i).message = Omitted /\ Json(i).error = Omitted
      /\ \A o \in OutFields :
           /\ Json(i).offer[o].t \notin {"omitted", "null", "undefined"}
           /\ (First(i).t = "obj"
                 /\ First(i).f[Mapping[o][1]] = Undefined
                 /\ First(i).f[Mapping[o][2]] = Undefined)
              => Json(i).offer[o] = Str(<<Mapping[o][3]>>)

\* C2: a non-OPTIONS request answered upstream with a success status and a
\* JSON payload that is the empty array or no array at all gets exactly
\* {success:false, message:"No offers available for this user."} at 200,
\* without offer or error, never a 500.
C2_NoOffersAt200 ==
  \A i \in Invocations :
    (Done(i) /\ NonOptions(i) /\ JsonReply(i)
       /\ (reply[i].body.data.t # "arr" \/ reply[i].body.data.a = <<>>)) =>
      /\ Returned(i)
      /\ result[i].resp.status = 200
      /\ result[i].resp.body.kind = "json"
      /\ Json(i).success = Bool("false")
      /\ Json(i).message = Str(<<"No offers available for this user.">>)
      /\ Json(i).error = Omitted
      /\ ~Json(i).offer.present

C2_Witness ==
  \E i \in Invocations :
    /\ Done(i) /\ NonOptions(i) /\ JsonReply(i)
    /\ reply[i].body.data.t = "obj"
    /\ result[i].resp.status = 200
    /\ Json(i).message = Str(<<"No offers available for this user.">>)

\* C3: a non-OPTIONS request whose upstream call is answered with a
\* non-success status gets {success:false, error:<message>} at 500; the
\* upstream body is not read and no second call goes out.
C3_UpstreamFailureIs500 ==
  \A i \in Invocations :
    (Done(i) /\ NonOptions(i) /\ reply[i].kind = "response"
       /\ (reply[i].status < 200 \/ reply[i].status > 299)) =>
      /\ Returned(i)
      /\ result[i].resp.status = 500
      /\ result[i].resp.body.kind = "json"
      /\ Json(i).success = Bool("false")
      /\ Json(i).error = Str(<<"Upstream Network Error: ", ToString(reply[i].status)>>)
      /\ Json(i).message = Omitted
      /\ ~Json(i).offer.present
      /\ ~bodyRead[i]
      /\ Len(sent[i]) = 1

C3_Witness ==
  \E i \in Invocations :
    /\ Done(i) /\ NonOptions(i)
    /\ reply[i].kind = "response" /\ reply[i].status = 304
    /\ reply[i].body.kind = "json"
    /\ result[i].resp.status = 500
    /\ ~bodyRead[i]

\* C4: an OPTIONS request gets an empty body with the three CORS headers and
\* no upstream call is made, whatever the request's headers.
C4_Preflight ==
  \A i \in Invocations :
    request[i].method = "OPTIONS" =>
      /\ Returned(i)
      /\ result[i].resp.body.kind = "empty"
      /\ result[i].resp.status = 200
      /\ result[i].resp.headers =
           { <<"Access-Control-Allow-Origin", "*">>,
             <<"Access-Control-Allow-Methods", "GET, HEAD, POST, OPTIONS">>,
             <<"Access-Control-Allow-Headers", "Content-Type">> }
      /\ sent[i] = <<>>
      /\ reply[i] = NoReply

C4_Witness ==
  \E i \in Invocations :
    /\ request[i].method = "OPTIONS" /\ Done(i)
    /\ request[i].ip # Null /\ request[i].ua = Null
    /\ result[i].resp.body.kind = "empty"

\* C5 (as stated): every invocation has issued exactly one outbound call by
\* the time it returns, whatever the inbound method.
C5_ExactlyOneCallEveryMethod ==
  \A i \in Invocations : Done(i) => Len(sent[i]) = 1

\* C5 (amended): an invocation never issues more than one outbound call; a
\* non-OPTIONS invocation has issued exactly one from its first await on, an
\* OPTIONS invocation none.
C5_OneCallUnlessPreflight ==
  \A i \in Invocations :
    /\ Len(sent[i]) <= 1
    /\ (pc[i] # "idle" /\ request[i].method # "OPTIONS") => Len(sent[i]) = 1
    /\ (pc[i] = "idle" \/ request[i].method = "OPTIONS") => Len(sent[i]) = 0

C5_Witness ==
  \E i \in Invocations :
    /\ Done(i) /\ request[i].method = "POST"
    /\ reply[i] = Rejected
    /\ Len(sent[i]) = 1

\* C6: no fault leaves the handler: every finished invocation has returned
\* a response, which is the empty preflight answer, JSON at 200, or JSON
\* {success:false, error:<message>} at 500, and carries the CORS headers.
C6_NoFaultEscapes ==
  \A i \in Invocations :
    Done(i) =>
      /\ result[i].kind = "return"
      /\ HasCors(result[i].resp)
      /\ \/ /\ request[i].method = "OPTIONS"
            /\ result[i].resp.body.kind = "empty"
         \/ /\ request[i].method # "OPTIONS"
            /\ result[i].resp.status = 200
            /\ result[i].resp.body.kind = "json"
            /\ <<"Content-Type", "application/json">> \in result[i].resp.headers
         \/ /\ request[i].method # "OPTIONS"
            /\ result[i].resp.status = 500
            /\ result[i].resp.body.kind = "json"
            /\ <<"Content-Type", "application/json">> \in result[i].resp.headers
            /\ Json(i).success = Bool("false")
            /\ Json(i).error.t = "str"
            /\ Json(i).message = Omitted
            /\ ~Json(i).offer.present

\* a fault in field selection: the first element is null
C6_Witness ==
  \E i \in Invocations :
    /\ Done(i) /\ NonEmptyArrayReply(i) /\ First(i).t = "null"
    /\ result[i].kind = "return"
    /\ result[i].resp.status = 500

\* C7 (as stated): for each output field, a primary field present on the
\* selected offer is the resolved output, even when it is the empty string
\* (taken here at the primary fields that hold a string, empty or not).
C7_PresentPrimaryWins ==
  \A i \in Invocations :
    (IsSuccess(i) /\ NonEmptyArrayReply(i) /\ First(i).t = "obj") =>
      \A o \in OutFields :
        First(i).f[Mapping[o][1]].t = "str" =>
          Json(i).offer[o] = First(i).f[Mapping[o][1]]

\* C7 (amended): for each output field, a primary field holding a truthy
\* value (a non-empty string, a non-zero number, true, an object or an
\* array) is the resolved output, whatever the fallback field holds; a
\* primary field that is present but falsy (empty string, 0, false, null)
\* is passed over like a missing one: the fallback field is the output if
\* truthy, the literal default otherwise.
C7_TruthyPrimaryWins ==
  \A i \in Invocations :
    (IsSuccess(i) /\ NonEmptyArrayReply(i) /\ First(i).t = "obj") =>
      \A o \in OutFields :
        LET primary == First(i).f[Mapping[o][1]]
            fallback == First(i).f[Mapping[o][2]]
            falsy(x) == \/ x \in {Undefined, Null, Str(<<>>), Num("0"), Bool("false")}
        IN /\ ~falsy(primary) => Json(i).offer[o] = primary
           /\ (falsy(primary) /\ ~falsy(fallback)) => Json(i).offer[o] = fallback
           /\ (falsy(primary) /\ falsy(fallback)) =>
                Json(i).offer[o] = Str(<<Mapping[o][3]>>)

\* {anchor:"A", name:"B"} resolves name to "A"
C7_Witness ==
  \E i \in Invocations :
    /\ IsSuccess(i) /\ NonEmptyArrayReply(i) /\ First(i).t = "obj"
    /\ First(i).f["anchor"] = Str(<<"A">>)
    /\ First(i).f["name"] = Str(<<"B">>)
    /\ Json(i).offer.name = Str(<<"A">>)

\* --- the query as the upstream reads it (form-urlencoded parsing)
DecodeByte(h1, h2) ==
  CASE <<h1, h2>> = <<"2", "6">> -> "&"
    [] <<h1, h2>> = <<"3", "D">> -> "="
    [] <<h1, h2>> = <<"2", "B">> -> "+"
    [] <<h1, h2>> = <<"2", "5">> -> "%"
    [] OTHER -> "?"

RECURSIVE Decode(_)
Decode(s) ==
  IF s = <<>> THEN <<>>
  ELSE IF Head(s) = "+" THEN <<" ">> \o Decode(Tail(s))
  ELSE IF Head(s) = "%" /\ Len(s) >= 3
       THEN <<DecodeByte(s[2], s[3])>> \o Decode(SubSeq(s, 4, Len(s)))
  ELSE <<Head(s)>> \o Decode(Tail(s))

RECURSIVE SplitOn(_, _)
SplitOn(s, sep) ==
  IF \A k \in 1..Len(s) : s[k] # sep THEN <<s>>
  ELSE LET k == CHOOSE k \in 1..Len(s) :
                  s[k] = sep /\ \A j \in 1..(k - 1) : s[j] # sep
       IN <<SubSeq(s, 1, k - 1)>> \o SplitOn(SubSeq(s, k + 1, Len(s)), sep)

ParsePair(p) ==
  LET halves == SplitOn(p, "=")
  IN <<Decode(halves[1]), Decode(SubSeq(p, Len(halves[1]) + 2, Len(p)))>>

\* the values the query of an outbound call carries under a name
QueryValues(call, name) ==
  LET parts == SelectSeq(SplitOn(SubSeq(call.url, 3, Len(call.url)), "&"),
                         LAMBDA p : p # <<>>)
  IN { ParsePair(parts[k])[2] :
         k \in {j \in 1..Len(parts) : ParsePair(parts[j])[1] = <<name>>} }

\* C8 (as stated): the outbound query of a non-OPTIONS request carries ip and
\* user_agent: the header's value when the header is present, the default
\* when it is missing, and never an absent or empty parameter.
C8_HeaderValueWhenPresent ==
  \A i \in Invocations :
    sent[i] # <<>> =>
      LET call == sent[i][1]
          want(h, d) == IF h = Null THEN d ELSE h.v
      IN /\ QueryValues(call, "ip") = {want(request[i].ip, <<"127.0.0.1">>)}
         /\ QueryValues(call, "user_agent") =
              {want(request[i].ua,
                    <<"Mozilla/5.0", " ", "(Compatible;", " ", "Smart-CPA-Worker/1.0)">>)}
         /\ <<>> \notin QueryValues(call, "ip") \cup QueryValues(call, "user_agent")

\* C8 (amended): the outbound query of a non-OPTIONS request carries ip and
\* user_agent: the header's value when the header is present and not empty,
\* the default when it is missing or empty, and never an absent or empty
\* parameter.
C8_HeaderValueWhenNonEmpty ==
  \A i \in Invocations :
    (pc[i] # "idle" /\ request[i].method # "OPTIONS") =>
      /\ sent[i] # <<>>
      /\ LET call == sent[i][1]
             want(h, d) == IF h = Null \/ h.v = <<>> THEN d ELSE h.v
         IN /\ QueryValues(call, "ip") = {want(request[i].ip, <<"127.0.0.1">>)}
            /\ QueryValues(call, "user_agent") =
                 {want(request[i].ua,
                       <<"Mozilla/5.0", " ", "(Compatible;", " ", "Smart-CPA-Worker/1.0)">>)}
            /\ <<>> \notin QueryValues(call, "ip") \cup QueryValues(call, "user_agent")

C8_Witness ==
  \E i \in Invocations :
    /\ sent[i] # <<>>
    /\ request[i].ip = Null
    /\ request[i].ua = Str(<<"&">>)
    /\ QueryValues(sent[i][1], "ip") = {<<"127.0.0.1">>}
    /\ QueryValues(sent[i][1], "user_agent") = {<<"&">>}

\* what the handler answers to a request and an upstream reply when it runs
\* with no other invocation around
Alone(req, rep) ==
  IF req.method = "OPTIONS" THEN Return(PreflightResponse)
  ELSE IF rep.kind = "rejected"
       THEN TryCatch(Throw(Str(<<"Network connection lost.">>)))
  ELSE LET o == TryCatch(AfterFetch(rep))
       IN IF o.kind = "running" THEN TryCatch(AfterJson(rep)) ELSE o

\* C9: invocations share no mutable state: under any interleaving of
\* concurrent invocations, each one's response is what it would answer alone
\* to its own request and its own upstream reply, and the call it sends
\* upstream carries its own request's ip and user_agent.
C9_Isolation ==
  \A i \in Invocations :
    /\ Done(i) => result[i] = Alone(request[i], reply[i])
    /\ sent[i] # <<>> =>
         /\ sent[i] = <<OutboundCall(request[i])>>
         /\ QueryValues(sent[i][1], "ip") = {visitorIpOf(request[i]).v}
         /\ QueryValues(sent[i][1], "user_agent") = {visitorUaOf(request[i]).v}

\* two invocations with different requests and replies, one finished while
\* the other is suspended in response.json()
C9_Witness ==
  \E i, j \in Invocations :
    /\ i # j
    /\ Done(i) /\ pc[j] = "await_json"
    /\ bodyRead[i]
    /\ request[i] # request[j]
    /\ reply[i] # reply[j]
    /\ visitorIpOf(request[i]) # visitorIpOf(request[j])
    /\ IsSuccess(i)

\* C10: in a success response the four offer fields are all strings,
\* whatever the JSON types of the fields of the first element, an object.
C10_OfferFieldsAreStrings ==
  \A i \in Invocations :
    (IsSuccess(i) /\ NonEmptyArrayReply(i) /\ First(i).t = "obj") =>
      \A o \in OutFields : Json(i).offer[o].t = "str"
====
